---- MODULE Spec2Model ----
(***************************************************************************)
(* Model of the private_data coordinator zome (v1.6): an owner's private   *)
(* records kept as immutable entries (Create / Update actions with Delete  *)
(* tombstones) and owner-based links.  Each entry type has its own link    *)
(* type (UserProfile: AgentToProfile, ...), so links are keyed by the      *)
(* entry type they carry.                                                  *)
(*                                                                         *)
(* An action hash is modelled as the pair <<entry type, index>>: the index *)
(* is the position of the Create / Update action among the actions of      *)
(* that entry type, in the order they were written.                        *)
(***************************************************************************)
EXTENDS Integers, Sequences, FiniteSets, TLC

\* ------------------------------------------------------------------ bounds
MaxEntries == 3        \* entries a store of several entry types holds
MaxChain == 4          \* entries a store of a single entry type holds
MaxNow == 2            \* last value of the system clock
MaxImported == 4       \* entries a store holds after an import
MaxOps == 3            \* operations offered to the validation callback

\* One clock unit is one day: 24 * 60 * 60 * 1_000_000 microseconds.
MicrosPerDay == 1
\* The i64 of the clock at that scale: a word of WordBits bits holds the days
\* -WordDays..WordDays-1.
WordBits == 3
WordDays == 2 ^ (WordBits - 1)

Payloads == {1, 2}     \* opaque payload values a caller supplies
Days == {0, 1}         \* older_than_days values a caller passes
Sessions == {1, 2}     \* concurrent sessions of the owner
Agents == {1, 2}       \* agents of the private network
Services == {1, 2}     \* service names a caller passes
Purposes == {1, 2}     \* purposes a caller passes
Apps == {1, 2}         \* OAuth app ids

VARIABLES
    entries,    \* entry type -> sequence of Create / Update actions
    links,      \* entry type -> sequence of CreateLink actions of its link type
    now,        \* sys_time()
    ret,        \* what the last zome call returned
    missing,    \* action hashes the store cannot fetch
    sess,       \* session -> position inside a call that runs step by step
    sweep,      \* position of a delete_old_login_activity call that runs step by step
    dht         \* the operations the validation callback accepted, in order

vars == <<entries, links, now, ret, missing, sess, sweep, dht>>

EntryTypes == {"UserProfile", "RecoveryPhrase", "Session", "EmailPermission",
               "LoginActivity", "DashboardActivity", "OAuthActivity",
               "PrivacySettings"}

\* ------------------------------------------------------------ payloads
UserProfile == [data : Payloads]

\* A new phrase is unverified and stamped with the time of the call.
RecoveryPhrase(t) == [secret : Payloads, verified : {FALSE}, created_at : {t}]

\* A rotated phrase: created_at is the caller's, the time of the call or a stale one.
RotatedPhrase(t) == [secret : Payloads, verified : {FALSE}, created_at : {0, t}]

Session == [created_at : {0}]

LoginActivity(t) == [timestamp : {t}, created_at : {t}]

DashboardActivity(t) == [visit_timestamp : {t}, created_at : {t}]

OAuthActivity(t) == [timestamp : {t}, app_id : {1}, created_at : {t}]

PrivacySettings(t) ==
    [track_ip_address : BOOLEAN, track_user_agent : {TRUE},
     activity_log_retention_days : {90}, auto_anonymize_after_days : {0},
     created_at : {t}, updated_at : {t}]

\* granted_at, revoked_at and last_used_at are Option<i64>.
EmailPermission ==
    [service_name : Services, purpose : Purposes, granted : BOOLEAN,
     granted_at : {<<>>} \cup {<<t>> : t \in 0..MaxNow},
     revoked_at : {<<>>} \cup {<<t>> : t \in 0..MaxNow},
     last_used_at : {<<>>} \cup {<<t>> : t \in 0..MaxNow},
     created_at : 0..MaxNow, updated_at : 0..MaxNow]

\* Option<T>: None, or Some(v) as a one-element sequence.
None == <<>>
Some(v) == <<v>>

\* ------------------------------------------------------- return values
\* What the last call returned: Ok (with the count a sweep returns, else 0),
\* or the error of the named call.
Ok(v) == [op |-> "", status |-> "ok", val |-> v]
Err(op) == [op |-> op, status |-> "err", val |-> 0]

\* Option<Record> results of the singleton reads; rec is the record's index.
SomeRecord(i) == [status |-> "ok", some |-> TRUE, rec |-> i]
NoRecord == [status |-> "ok", some |-> FALSE, rec |-> 0]
ReadErr == [status |-> "err", some |-> FALSE, rec |-> 0]

\* ------------------------------------------------------ store primitives
Last(s) == s[Len(s)]

TotalEntries ==
    Len(entries["UserProfile"]) + Len(entries["RecoveryPhrase"])
    + Len(entries["Session"]) + Len(entries["EmailPermission"])
    + Len(entries["LoginActivity"]) + Len(entries["DashboardActivity"])
    + Len(entries["OAuthActivity"]) + Len(entries["PrivacySettings"])

\* create_entry: a Create action of entry type et.
create_entry(et, p) ==
    Append(entries[et], [kind |-> "Create", orig |-> 0, data |-> p, deleted |-> FALSE])

\* Mutant: the Update action does not name the action it updates.
update_entry_detached(et, original, p) ==
    Append(entries[et], [kind |-> "Update", orig |-> 0, data |-> p, deleted |-> FALSE])

\* update_entry: an Update action naming the action it updates.
update_entry(et, original, p) ==
    Append(entries[et],
           [kind |-> "Update", orig |-> original, data |-> p, deleted |-> FALSE])

\* delete_entry: a tombstone on the action.
delete_entry(et, i) == [entries[et] EXCEPT ![i].deleted = TRUE]

\* create_link: a link from the owner's key to entry i of the link's type.
create_link(et, i) == Append(links[et], [target |-> i, live |-> TRUE])

\* Mutant: delete_link on the first link only.
delete_link_first(ls, S) ==
    [n \in 1..Len(ls) |-> IF n \in S /\ n = 1 THEN [ls[n] EXCEPT !.live = FALSE] ELSE ls[n]]

\* delete_link on every link of the sequence whose position is in S.
delete_link(ls, S) == [n \in 1..Len(ls) |-> IF n \in S THEN [ls[n] EXCEPT !.live = FALSE] ELSE ls[n]]

\* Mutant: deleted links are listed too.
get_links_with_deleted(et) == [n \in 1..Len(links[et]) |-> n]

\* get_links: the live links of the type, in insertion order (positions in links[et]).
get_links(et) ==
    SelectSeq([n \in 1..Len(links[et]) |-> n], LAMBDA n : links[et][n].live)

\* get: the record, or None when it is deleted or cannot be fetched.
get(et, i) ==
    i \in 1..Len(entries[et]) /\ <<et, i>> \notin missing /\ ~entries[et][i].deleted

\* get_details(...).updates: the Update actions naming i, in insertion order.
updates(et, i) ==
    SelectSeq([n \in 1..Len(entries[et]) |-> n],
              LAMBDA n : entries[et][n].kind = "Update" /\ entries[et][n].orig = i)

\* get_details: Some(details) unless the action cannot be fetched; a deleted
\* record still has details.
get_details(et, i) == i \in 1..Len(entries[et]) /\ <<et, i>> \notin missing

\* ------------------------------------------------------- singleton reads
\* The loop of the singleton reads: follow the last-listed update until a
\* record without updates; an action that cannot be fetched is an error.
\* Mutant: follows one level of updates only.
follow_one_level(et, current_hash) ==
    IF ~get_details(et, current_hash) THEN ReadErr
    ELSE IF updates(et, current_hash) # <<>>
         THEN SomeRecord(Last(updates(et, current_hash)))
         ELSE SomeRecord(current_hash)

\* Mutant: an action that cannot be fetched reads as no record.
RECURSIVE follow_updates_lenient(_, _)
follow_updates_lenient(et, current_hash) ==
    IF ~get_details(et, current_hash) THEN NoRecord
    ELSE IF updates(et, current_hash) # <<>>
         THEN follow_updates_lenient(et, Last(updates(et, current_hash)))
         ELSE SomeRecord(current_hash)

\* Mutant: the loop gives up after two updates.
follow_two_levels(et, current_hash) ==
    IF ~get_details(et, current_hash) THEN ReadErr
    ELSE IF updates(et, current_hash) # <<>>
         THEN follow_one_level(et, Last(updates(et, current_hash)))
         ELSE SomeRecord(current_hash)

\* Mutant: the loop follows the first-listed update.
RECURSIVE follow_updates_first(_, _)
follow_updates_first(et, current_hash) ==
    IF ~get_details(et, current_hash) THEN ReadErr
    ELSE IF updates(et, current_hash) # <<>>
         THEN follow_updates_first(et, updates(et, current_hash)[1])
         ELSE SomeRecord(current_hash)

RECURSIVE follow_updates(_, _)
follow_updates(et, current_hash) ==
    IF ~get_details(et, current_hash) THEN ReadErr
    ELSE IF updates(et, current_hash) # <<>>
         THEN follow_updates(et, Last(updates(et, current_hash)))
         ELSE SomeRecord(current_hash)

\* Mutant: a read without a link is an error.
first_link_head_strict(et) ==
    IF get_links(et) # <<>>
    THEN follow_updates(et, links[et][get_links(et)[1]].target)
    ELSE ReadErr

\* Mutant: the read starts at the last-listed link.
first_link_head_last(et) ==
    IF get_links(et) # <<>>
    THEN follow_updates(et, links[et][Last(get_links(et))].target)
    ELSE NoRecord

\* links.first(), then the loop; None without a link.
first_link_head(et) ==
    IF get_links(et) # <<>>
    THEN follow_updates(et, links[et][get_links(et)[1]].target)
    ELSE NoRecord

get_user_profile == first_link_head("UserProfile")

get_recovery_phrase == first_link_head("RecoveryPhrase")

get_privacy_settings == first_link_head("PrivacySettings")

\* The update chain from an action: the actions the loop visits, in order.
RECURSIVE update_chain(_, _)
update_chain(et, h) ==
    IF updates(et, h) = <<>> THEN <<h>>
    ELSE <<h>> \o update_chain(et, Last(updates(et, h)))

\* ------------------------------------------------------------ list reads
\* The targets of the live links of the type, in insertion order.
link_targets(et) == [n \in 1..Len(get_links(et)) |-> links[et][get_links(et)[n]].target]

\* for link in links { if let Some(record) = get(hash) { push } }
RECURSIVE readable(_, _)
readable(et, hashes) ==
    IF hashes = <<>> THEN <<>>
    ELSE IF get(et, hashes[1]) THEN <<hashes[1]>> \o readable(et, Tail(hashes))
         ELSE readable(et, Tail(hashes))

get_my_sessions == readable("Session", link_targets("Session"))

\* links.iter().rev().skip(offset).take(limit)
page(hashes, limit, offset) ==
    [n \in 1..(IF Len(hashes) - offset < 0 THEN 0
               ELSE IF Len(hashes) - offset < limit THEN Len(hashes) - offset
               ELSE limit) |-> hashes[Len(hashes) - offset - n + 1]]

\* The activities of the page that get() returns.
activity_page(et, limit, offset) ==
    LET hs == readable(et, page(link_targets(et), limit, offset))
    IN [n \in 1..Len(hs) |-> entries[et][hs[n]].data]

get_login_activity(limit, offset) == activity_page("LoginActivity", limit, offset)

get_dashboard_activity(limit, offset) == activity_page("DashboardActivity", limit, offset)

get_oauth_activity(limit, offset) == activity_page("OAuthActivity", limit, offset)

\* Mutant: the page is cut out of the links before the app filter.
get_oauth_activity_paged_first(app_id, limit, offset) ==
    LET hs == SelectSeq(readable("OAuthActivity",
                                 page(link_targets("OAuthActivity"), limit, offset)),
                        LAMBDA h : entries["OAuthActivity"][h].data.app_id = app_id)
    IN [n \in 1..Len(hs) |-> entries["OAuthActivity"][hs[n]].data]

\* get_oauth_activity_by_app: links.iter().rev(), get(), the app filter, and
\* then skip(offset).take(limit).
get_oauth_activity_by_app(app_id, limit, offset) ==
    LET all == link_targets("OAuthActivity")
        hs == SelectSeq(readable("OAuthActivity", page(all, Len(all), 0)),
                        LAMBDA h : entries["OAuthActivity"][h].data.app_id = app_id)
    IN [n \in 1..(IF Len(hs) - offset < 0 THEN 0
                  ELSE IF Len(hs) - offset < limit THEN Len(hs) - offset
                  ELSE limit) |-> entries["OAuthActivity"][hs[offset + n]].data]

\* get_activity_summary: the logins and the OAuth apps are counted over the
\* records get() returns, the dashboard visits over the links.
get_activity_summary ==
    LET thirty_days_ago == now - 30 * MicrosPerDay
        logins == readable("LoginActivity", link_targets("LoginActivity"))
        stamps == {entries["LoginActivity"][logins[n]].data.timestamp : n \in 1..Len(logins)}
        oauth == readable("OAuthActivity", link_targets("OAuthActivity"))
    IN [total_logins |-> Len(logins),
        logins_last_30_days |->
            Cardinality({n \in 1..Len(logins) :
                entries["LoginActivity"][logins[n]].data.timestamp >= thirty_days_ago}),
        unique_apps_used |->
            Cardinality({entries["OAuthActivity"][oauth[n]].data.app_id : n \in 1..Len(oauth)}),
        dashboard_visits |-> Len(get_links("DashboardActivity")),
        last_login |-> IF stamps = {} THEN None
                       ELSE Some(CHOOSE t \in stamps : \A u \in stamps : u <= t)]

\* Mutant: the first update of the link's target is read as the latest.
RECURSIVE latest_permissions_first(_)
latest_permissions_first(hashes) ==
    IF hashes = <<>> THEN <<>>
    ELSE LET et == "EmailPermission"
             h == hashes[1]
             latest == IF updates(et, h) # <<>> /\ get(et, updates(et, h)[1])
                       THEN updates(et, h)[1] ELSE h
         IN IF get_details(et, h)
            THEN <<entries[et][latest].data>> \o latest_permissions_first(Tail(hashes))
            ELSE latest_permissions_first(Tail(hashes))

\* The latest version get_email_permissions reads behind one link: the last
\* update of the link's target if get() returns it, else the target itself.
RECURSIVE latest_permissions(_)
latest_permissions(hashes) ==
    IF hashes = <<>> THEN <<>>
    ELSE LET et == "EmailPermission"
             h == hashes[1]
             latest == IF updates(et, h) # <<>> /\ get(et, Last(updates(et, h)))
                       THEN Last(updates(et, h)) ELSE h
         IN IF get_details(et, h)
            THEN <<entries[et][latest].data>> \o latest_permissions(Tail(hashes))
            ELSE latest_permissions(Tail(hashes))

get_email_permissions == latest_permissions(link_targets("EmailPermission"))

\* limit and offset values a caller passes (100 is the default limit).
Limits == {0, 1, 2, 100}
Offsets == {0, 1, 2}

\* --------------------------------------------------------- zome calls
\* The bound of the model: a store holds up to MaxEntries entries, or up to
\* MaxChain entries when they are all of one entry type.
Room(et) ==
    \/ TotalEntries < MaxEntries
    \/ TotalEntries = Len(entries[et]) /\ TotalEntries < MaxChain

Fails(op) ==
    /\ ret' = Err(op)
    /\ UNCHANGED <<entries, links, now, missing, sess, sweep, dht>>

\* create_entry + create_link of a new record of type et.
StoreNew(et, p) ==
    /\ entries' = [entries EXCEPT ![et] = create_entry(et, p)]
    /\ links' = [links EXCEPT ![et] = create_link(et, Len(entries[et]) + 1)]

\* Mutant: the update also links the new entry.
UpdateHeadLinked(op, et, current_record, p) ==
    IF current_record.status = "err" \/ ~current_record.some
    THEN Fails(op)
    ELSE /\ Room(et)
         /\ entries' = [entries EXCEPT ![et] = update_entry(et, current_record.rec, p)]
         /\ links' = [links EXCEPT ![et] = create_link(et, Len(entries[et]) + 1)]
         /\ ret' = Ok(0)
         /\ UNCHANGED <<now, missing, sess, sweep, dht>>

\* Mutant: without a head the update stores the record as a new one.
UpdateHeadOrStore(op, et, current_record, p) ==
    IF current_record.status = "err"
    THEN Fails(op)
    ELSE /\ Room(et)
         /\ IF current_record.some
            THEN /\ entries' = [entries EXCEPT ![et] = update_entry(et, current_record.rec, p)]
                 /\ links' = links
            ELSE StoreNew(et, p)
         /\ ret' = Ok(0)
         /\ UNCHANGED <<now, missing, sess, sweep, dht>>

\* update_entry on the resolved head of a singleton kind.
UpdateHead(op, et, current_record, p) ==
    IF current_record.status = "err" \/ ~current_record.some
    THEN Fails(op)
    ELSE /\ Room(et)
         /\ entries' = [entries EXCEPT ![et] = update_entry(et, current_record.rec, p)]
         /\ ret' = Ok(0)
         /\ UNCHANGED <<links, now, missing, sess, sweep, dht>>

store_user_profile(profile) ==
    /\ Room("UserProfile")
    /\ StoreNew("UserProfile", profile)
    /\ ret' = Ok(0)
    /\ UNCHANGED <<now, missing, sess, sweep, dht>>

update_user_profile(profile) ==
    UpdateHead("update_user_profile", "UserProfile", get_user_profile, profile)

store_recovery_phrase(recovery_phrase) ==
    /\ Room("RecoveryPhrase")
    /\ StoreNew("RecoveryPhrase", recovery_phrase)
    /\ ret' = Ok(0)
    /\ UNCHANGED <<now, missing, sess, sweep, dht>>

\* The entry mark_recovery_phrase_verified writes.
verified_phrase(recovery_phrase) ==
    [recovery_phrase EXCEPT !.verified = TRUE, !.created_at = now]

\* Mutant: the verified copy is made of the first link's target, not of the
\* head of its update chain.
mark_link_target_verified ==
    LET current_record == get_recovery_phrase
        et == "RecoveryPhrase"
    IN IF current_record.status = "err" \/ ~current_record.some
       THEN Fails("mark_recovery_phrase_verified")
       ELSE /\ Room(et)
            /\ entries' = [entries EXCEPT ![et] =
                    create_entry(et, verified_phrase(
                        entries[et][links[et][get_links(et)[1]].target].data))]
            /\ links' = [links EXCEPT ![et] =
                    Append(delete_link(links[et], {get_links(et)[n] : n \in 1..Len(get_links(et))}),
                           [target |-> Len(entries[et]) + 1, live |-> TRUE])]
            /\ ret' = Ok(0)
            /\ UNCHANGED <<now, missing, sess, sweep, dht>>

mark_recovery_phrase_verified ==
    LET current_record == get_recovery_phrase
        et == "RecoveryPhrase"
    IN IF current_record.status = "err" \/ ~current_record.some
       THEN Fails("mark_recovery_phrase_verified")
       ELSE /\ Room(et)
            /\ entries' = [entries EXCEPT ![et] =
                    create_entry(et, verified_phrase(entries[et][current_record.rec].data))]
            /\ links' = [links EXCEPT ![et] =
                    Append(delete_link(links[et], {get_links(et)[n] : n \in 1..Len(get_links(et))}),
                           [target |-> Len(entries[et]) + 1, live |-> TRUE])]
            /\ ret' = Ok(0)
            /\ UNCHANGED <<now, missing, sess, sweep, dht>>

update_recovery_phrase(recovery_phrase) ==
    UpdateHead("update_recovery_phrase", "RecoveryPhrase", get_recovery_phrase,
               recovery_phrase)

store_session(session) ==
    /\ Room("Session")
    /\ StoreNew("Session", session)
    /\ ret' = Ok(0)
    /\ UNCHANGED <<now, missing, sess, sweep, dht>>

\* delete_session: delete_entry on the session's action hash, nothing else.
delete_session(session_hash) ==
    /\ entries' = [entries EXCEPT !["Session"] = delete_entry("Session", session_hash)]
    /\ ret' = Ok(0)
    /\ UNCHANGED <<links, now, missing, sess, sweep, dht>>

create_default_privacy_settings ==
    IF get_links("PrivacySettings") # <<>>
    THEN Fails("create_default_privacy_settings")
    ELSE /\ Room("PrivacySettings")
         /\ StoreNew("PrivacySettings",
                     [track_ip_address |-> TRUE, track_user_agent |-> TRUE,
                      activity_log_retention_days |-> 90,
                      auto_anonymize_after_days |-> 0,
                      created_at |-> now, updated_at |-> now])
         /\ ret' = Ok(0)
         /\ UNCHANGED <<now, missing, sess, sweep, dht>>

update_privacy_settings(settings) ==
    UpdateHead("update_privacy_settings", "PrivacySettings", get_privacy_settings,
               settings)

store_login_activity(activity) ==
    /\ Room("LoginActivity")
    /\ StoreNew("LoginActivity", activity)
    /\ ret' = Ok(0)
    /\ UNCHANGED <<now, missing, sess, sweep, dht>>

store_dashboard_activity(activity) ==
    /\ Room("DashboardActivity")
    /\ StoreNew("DashboardActivity", activity)
    /\ ret' = Ok(0)
    /\ UNCHANGED <<now, missing, sess, sweep, dht>>

store_oauth_activity(activity) ==
    /\ Room("OAuthActivity")
    /\ StoreNew("OAuthActivity", activity)
    /\ ret' = Ok(0)
    /\ UNCHANGED <<now, missing, sess, sweep, dht>>

\* Mutant: an entry at the cutoff is swept too.
swept_inclusive(et, older_than_days) ==
    {links[et][get_links(et)[n]].target : n \in 1..Len(get_links(et))}
        \cap {i \in 1..Len(entries[et]) :
                 get(et, i) /\ entries[et][i].data.created_at
                                  <= now - older_than_days * MicrosPerDay}

\* i64 arithmetic of the release build: a result outside the word wraps around.
wrapping(x) == ((x + WordDays) % (2 * WordDays)) - WordDays

\* The product or the difference leaves the word.
overflows(older_than_days) ==
    \/ older_than_days * MicrosPerDay # wrapping(older_than_days * MicrosPerDay)
    \/ now - wrapping(older_than_days * MicrosPerDay)
           # wrapping(now - wrapping(older_than_days * MicrosPerDay))

\* cutoff = now - older_than_days * 24 * 60 * 60 * 1_000_000
cutoff(older_than_days) ==
    wrapping(now - wrapping(older_than_days * MicrosPerDay))

\* The entries a sweep deletes: targets of the live links that get() returns
\* and whose created_at is before the cutoff.
swept(et, older_than_days) ==
    {links[et][get_links(et)[n]].target : n \in 1..Len(get_links(et))}
        \cap {i \in 1..Len(entries[et]) :
                 get(et, i) /\ entries[et][i].data.created_at < cutoff(older_than_days)}

\* Mutant: the sweep runs over the three activity kinds.
delete_old_every_kind(et, older_than_days) ==
    /\ entries' = [k \in EntryTypes |->
            IF k \in {"LoginActivity", "DashboardActivity", "OAuthActivity"}
            THEN [i \in 1..Len(entries[k]) |->
                    IF i \in swept(k, older_than_days)
                    THEN [entries[k][i] EXCEPT !.deleted = TRUE]
                    ELSE entries[k][i]]
            ELSE entries[k]]
    /\ ret' = Ok(Cardinality(swept(et, older_than_days)))
    /\ UNCHANGED <<links, now, missing, sess, sweep, dht>>

\* The loop of delete_old_*_activity: delete_entry on each such entry.
\* A build with overflow checks stops at the cutoff when it overflows; the
\* release build goes on with the wrapped value.
delete_old(et, older_than_days) ==
    \E checked \in IF overflows(older_than_days) THEN BOOLEAN ELSE {FALSE} :
        /\ entries' = IF checked THEN entries
                       ELSE [entries EXCEPT ![et] =
                               [i \in 1..Len(entries[et]) |->
                                   IF i \in swept(et, older_than_days)
                                   THEN [entries[et][i] EXCEPT !.deleted = TRUE]
                                   ELSE entries[et][i]]]
        /\ ret' = IF checked THEN Err("overflow")
                   ELSE Ok(Cardinality(swept(et, older_than_days)))
        /\ UNCHANGED <<links, now, missing, sess, sweep, dht>>

delete_old_login_activity(older_than_days) ==
    delete_old("LoginActivity", older_than_days)

delete_old_dashboard_activity(older_than_days) ==
    delete_old("DashboardActivity", older_than_days)

delete_old_oauth_activity(older_than_days) ==
    delete_old("OAuthActivity", older_than_days)

\* The system clock advances.
Tick ==
    /\ now < MaxNow
    /\ now' = now + 1
    /\ UNCHANGED <<entries, links, ret, missing, sess, sweep, dht>>

\* ------------------------------------------------------ specification
Init ==
    /\ entries = [et \in EntryTypes |-> <<>>]
    /\ links = [et \in EntryTypes |-> <<>>]
    /\ now = 1
    /\ ret = Ok(0)
    /\ missing = {}
    /\ sess = [s \in Sessions |-> [pc |-> "idle", head |-> 0, wrote |-> 0]]
    /\ sweep = [pc |-> "idle", cutoff |-> 0, links |-> <<>>, next |-> 1, deleted_count |-> 0]
    /\ dht = <<>>

Next ==
    \/ \E p \in UserProfile : store_user_profile(p)
    \/ \E p \in UserProfile : update_user_profile(p)
    \/ \E p \in RecoveryPhrase(now) : store_recovery_phrase(p)
    \/ mark_recovery_phrase_verified
    \/ \E p \in RotatedPhrase(now) : update_recovery_phrase(p)
    \/ \E p \in Session : store_session(p)
    \/ \E h \in 1..Len(entries["Session"]) : delete_session(h)
    \/ create_default_privacy_settings
    \/ \E p \in PrivacySettings(now) : update_privacy_settings(p)
    \/ \E p \in LoginActivity(now) : store_login_activity(p)
    \/ \E p \in DashboardActivity(now) : store_dashboard_activity(p)
    \/ \E p \in OAuthActivity(now) : store_oauth_activity(p)
    \/ \E d \in Days : delete_old_login_activity(d)
    \/ \E d \in Days : delete_old_dashboard_activity(d)
    \/ \E d \in Days : delete_old_oauth_activity(d)
    \/ Tick

Spec == Init /\ [][Next]_vars

\* ------------------------------------------- a store that loses an action
\* The store stops returning one action (get and get_details give None).
Lose(et, i) ==
    /\ missing = {}
    /\ missing' = {<<et, i>>}
    /\ UNCHANGED <<entries, links, now, ret, sess, sweep, dht>>

\* The singleton kinds' calls over a store that may lose an action.
NextFault ==
    \/ \E p \in UserProfile : store_user_profile(p)
    \/ \E p \in UserProfile : update_user_profile(p)
    \/ \E p \in RecoveryPhrase(now) : store_recovery_phrase(p)
    \/ mark_recovery_phrase_verified
    \/ \E p \in RotatedPhrase(now) : update_recovery_phrase(p)
    \/ create_default_privacy_settings
    \/ \E p \in PrivacySettings(now) : update_privacy_settings(p)
    \/ \E et \in EntryTypes : \E i \in 1..Len(entries[et]) : Lose(et, i)

SpecFault == Init /\ [][NextFault]_vars

\* ------------------------------- two sessions racing update_user_profile
\* First half of update_user_profile in session s: get_user_profile(()).
resolve_profile(s) ==
    /\ sess[s].pc = "idle"
    /\ get_user_profile.status = "ok" /\ get_user_profile.some
    /\ sess' = [sess EXCEPT ![s] = [pc |-> "resolved", head |-> get_user_profile.rec,
                                    wrote |-> 0]]
    /\ UNCHANGED <<entries, links, now, ret, missing, sweep, dht>>

\* Second half: update_entry on the record resolved before.
write_profile(s, profile) ==
    /\ sess[s].pc = "resolved"
    /\ Room("UserProfile")
    /\ entries' = [entries EXCEPT !["UserProfile"] =
            update_entry("UserProfile", sess[s].head, profile)]
    /\ sess' = [sess EXCEPT ![s] = [pc |-> "done", head |-> sess[s].head,
                                    wrote |-> Len(entries["UserProfile"]) + 1]]
    /\ ret' = Ok(0)
    /\ UNCHANGED <<links, now, missing, sweep, dht>>

\* No session is between the two halves of its call.
Quiet == \A s \in Sessions : sess[s].pc # "resolved"

NextConc ==
    \/ \E p \in UserProfile : Quiet /\ store_user_profile(p)
    \/ \E p \in UserProfile : Quiet /\ update_user_profile(p)
    \/ \E s \in Sessions : resolve_profile(s)
    \/ \E s \in Sessions : \E p \in UserProfile : write_profile(s, p)

SpecConc == Init /\ [][NextConc]_vars

\* update_user_profile calls of the owner while a session is between the
\* two halves of its own call: the session's write lands beside an update
\* that already has successors.
NextSiblings ==
    \/ \E p \in UserProfile : store_user_profile(p)
    \/ \E p \in UserProfile : update_user_profile(p)
    \/ \E s \in Sessions : resolve_profile(s)
    \/ \E s \in Sessions : \E p \in UserProfile : write_profile(s, p)

SpecSiblings == Init /\ [][NextSiblings]_vars

\* ------------------------------------------------ email permissions
\* The loop of grant / revoke / record_permission_usage over the links: the
\* targets get() returns whose service_name is the requested one (and, for
\* revoke and record_permission_usage, whose granted is true), in link order.
\* The record examined is the link's target itself.
matching_permissions(service_name, granted_only) ==
    SelectSeq(link_targets("EmailPermission"),
              LAMBDA h : /\ get("EmailPermission", h)
                         /\ entries["EmailPermission"][h].data.service_name = service_name
                         /\ (granted_only => entries["EmailPermission"][h].data.granted))

\* update_entry on the first matching link target, or the error of the call.
UpdatePermission(op, found, permission) ==
    IF found = <<>>
    THEN Fails(op)
    ELSE /\ Room("EmailPermission")
         /\ entries' = [entries EXCEPT !["EmailPermission"] =
                update_entry("EmailPermission", found[1], permission)]
         /\ ret' = Ok(0)
         /\ UNCHANGED <<links, now, missing, sess, sweep, dht>>

\* Mutant: a grant never looks for an existing permission.
grant_always_new(service_name, purpose) ==
    /\ Room("EmailPermission")
    /\ StoreNew("EmailPermission",
                [service_name |-> service_name, purpose |-> purpose,
                 granted |-> TRUE, granted_at |-> Some(now), revoked_at |-> None,
                 last_used_at |-> None, created_at |-> now, updated_at |-> now])
    /\ ret' = Ok(0)
    /\ UNCHANGED <<now, missing, sess, sweep, dht>>

grant_email_permission(service_name, purpose) ==
    LET found == matching_permissions(service_name, FALSE)
    IN IF found # <<>>
       THEN UpdatePermission("grant_email_permission", found,
                [entries["EmailPermission"][found[1]].data EXCEPT
                    !.granted = TRUE, !.granted_at = Some(now),
                    !.revoked_at = None, !.updated_at = now])
       ELSE /\ Room("EmailPermission")
            /\ StoreNew("EmailPermission",
                        [service_name |-> service_name, purpose |-> purpose,
                         granted |-> TRUE, granted_at |-> Some(now),
                         revoked_at |-> None, last_used_at |-> None,
                         created_at |-> now, updated_at |-> now])
            /\ ret' = Ok(0)
            /\ UNCHANGED <<now, missing, sess, sweep, dht>>

revoke_email_permission(service_name) ==
    LET found == matching_permissions(service_name, TRUE)
    IN UpdatePermission("revoke_email_permission", found,
            IF found = <<>> THEN None
            ELSE [entries["EmailPermission"][found[1]].data EXCEPT
                     !.granted = FALSE, !.revoked_at = Some(now), !.updated_at = now])

record_permission_usage(service_name) ==
    LET found == matching_permissions(service_name, TRUE)
    IN UpdatePermission("record_permission_usage", found,
            IF found = <<>> THEN None
            ELSE [entries["EmailPermission"][found[1]].data EXCEPT
                     !.last_used_at = Some(now), !.updated_at = now])

\* check_email_permission: some permission get_email_permissions returns has
\* the service name and granted = true.
check_email_permission(service_name) ==
    \E n \in 1..Len(get_email_permissions) :
        /\ get_email_permissions[n].service_name = service_name
        /\ get_email_permissions[n].granted

NextPermission ==
    \/ \E s \in Services : \E p \in Purposes : grant_email_permission(s, p)
    \/ \E s \in Services : revoke_email_permission(s)
    \/ \E s \in Services : record_permission_usage(s)
    \/ Tick

SpecPermission == Init /\ [][NextPermission]_vars

\* ------------------------------------------------ the recovery phrase
\* A phrase as a caller passes it: created_at is the caller's, before, at or
\* after the time of the call.
SuppliedPhrase == [secret : Payloads, verified : {FALSE}, created_at : {0, MaxNow}]

NextPhrase ==
    \/ \E p \in SuppliedPhrase : store_recovery_phrase(p)
    \/ mark_recovery_phrase_verified
    \/ \E p \in SuppliedPhrase : update_recovery_phrase(p)
    \/ Tick

SpecPhrase == Init /\ [][NextPhrase]_vars

\* ------------------------------------------------ export and import
\* The payload of the record a singleton read returned, as an Option.
head_payload(et, record) ==
    IF record.some THEN Some(entries[et][record.rec].data) ELSE None

\* The payloads of the records of a list of hashes.
payloads(et, hashes) == [n \in 1..Len(hashes) |-> entries[et][hashes[n]].data]

\* export_all_data: the profile, the recovery phrase, the sessions and the
\* email permissions as the reads return them; the activity lists are
\* Vec::new() and privacy_settings is None.
export_all_data ==
    [user_profile |-> head_payload("UserProfile", get_user_profile),
     recovery_phrase |-> head_payload("RecoveryPhrase", get_recovery_phrase),
     sessions |-> payloads("Session", get_my_sessions),
     email_permissions |-> get_email_permissions,
     login_activities |-> <<>>,
     dashboard_activities |-> <<>>,
     oauth_activities |-> <<>>,
     privacy_settings |-> None]

\* The default record of create_default_privacy_settings at time t.
default_privacy_settings(t) ==
    [track_ip_address |-> TRUE, track_user_agent |-> TRUE,
     activity_log_retention_days |-> 90, auto_anonymize_after_days |-> 0,
     created_at |-> t, updated_at |-> t]

\* The order in which import_data imports the kinds.
ImportOrder ==
    <<"UserProfile", "RecoveryPhrase", "Session", "EmailPermission",
      "LoginActivity", "DashboardActivity", "OAuthActivity", "PrivacySettings">>

import_position(et) ==
    CASE et = "UserProfile" -> 1
      [] et = "RecoveryPhrase" -> 2
      [] et = "Session" -> 3
      [] et = "EmailPermission" -> 4
      [] et = "LoginActivity" -> 5
      [] et = "DashboardActivity" -> 6
      [] et = "OAuthActivity" -> 7
      [] et = "PrivacySettings" -> 8

\* The payloads import_data stores for a kind: the bundle's, and the default
\* privacy settings at time t when the bundle has none.
bundle_items(data, et, t) ==
    CASE et = "UserProfile" -> data.user_profile
      [] et = "RecoveryPhrase" -> data.recovery_phrase
      [] et = "Session" -> data.sessions
      [] et = "EmailPermission" -> data.email_permissions
      [] et = "LoginActivity" -> data.login_activities
      [] et = "DashboardActivity" -> data.dashboard_activities
      [] et = "OAuthActivity" -> data.oauth_activities
      [] et = "PrivacySettings" ->
            IF data.privacy_settings = None THEN Some(default_privacy_settings(t))
            ELSE data.privacy_settings

\* The entries of store es after import_data stored the kinds before position
\* upto: one create_entry per item.
imported_entries(es, data, upto, t) ==
    [et \in EntryTypes |->
        IF import_position(et) < upto
        THEN es[et] \o [n \in 1..Len(bundle_items(data, et, t)) |->
                           [kind |-> "Create", orig |-> 0,
                            data |-> bundle_items(data, et, t)[n], deleted |-> FALSE]]
        ELSE es[et]]

\* The links after the same: one create_link per item, to the new entry.
imported_links(es, ls, data, upto, t) ==
    [et \in EntryTypes |->
        IF import_position(et) < upto
        THEN ls[et] \o [n \in 1..Len(bundle_items(data, et, t)) |->
                           [target |-> Len(es[et]) + n, live |-> TRUE]]
        ELSE ls[et]]

\* The number of entries import_data writes for a bundle.
bundle_size(data) ==
    Len(data.user_profile) + Len(data.recovery_phrase) + Len(data.sessions)
    + Len(data.email_permissions) + Len(data.login_activities)
    + Len(data.dashboard_activities) + Len(data.oauth_activities) + 1

\* import_data returns the error of the call that failed at position upto.
\* The calls before it wrote their entries and links; the host keeps the
\* writes of a call that returns an error, or discards them.
import_fails(data, upto, op) ==
    /\ ret' = Err(op)
    /\ \/ /\ entries' = imported_entries(entries, data, upto, now)
          /\ links' = imported_links(entries, links, data, upto, now)
       \/ UNCHANGED <<entries, links>>
    /\ UNCHANGED <<now, missing, sess, sweep, dht>>

import_data(data) ==
    /\ TotalEntries + bundle_size(data) <= MaxImported
    /\ IF data.privacy_settings = None /\ get_links("PrivacySettings") # <<>>
       THEN import_fails(data, import_position("PrivacySettings"),
                         "create_default_privacy_settings")
       ELSE /\ entries' = imported_entries(entries, data, Len(ImportOrder) + 1, now)
            /\ links' = imported_links(entries, links, data, Len(ImportOrder) + 1, now)
            /\ ret' = Ok(0)
            /\ UNCHANGED <<now, missing, sess, sweep, dht>>

\* import_data when the store call of kind et returns an error (the ? after
\* it returns from import_data at once).
import_data_store_error(data, et) ==
    /\ TotalEntries + bundle_size(data) <= MaxImported
    /\ et # "PrivacySettings"
    /\ bundle_items(data, et, now) # <<>>
    /\ import_fails(data, import_position(et), "create_entry")

\* export_all_data on this store, then import_data of the bundle into an
\* empty store, which becomes the owner's store.
EmptyStore == [et \in EntryTypes |-> <<>>]

export_then_import ==
    /\ get_user_profile.status = "ok" /\ get_recovery_phrase.status = "ok"
    /\ TotalEntries > 0
    /\ entries' = imported_entries(EmptyStore, export_all_data, Len(ImportOrder) + 1, now)
    /\ links' = imported_links(EmptyStore, EmptyStore, export_all_data,
                               Len(ImportOrder) + 1, now)
    /\ ret' = Ok(0)
    /\ UNCHANGED <<now, missing, sess, sweep, dht>>

\* The bundles a caller passes to import_data.
Bundles ==
    [user_profile : {None, Some([data |-> 1])},
     recovery_phrase : {None, Some([secret |-> 1, verified |-> TRUE, created_at |-> 0])},
     sessions : {<<>>, <<[created_at |-> 0]>>},
     email_permissions :
         {<<>>, <<[service_name |-> 1, purpose |-> 1, granted |-> TRUE,
                   granted_at |-> Some(0), revoked_at |-> None,
                   last_used_at |-> None, created_at |-> 0, updated_at |-> 0]>>},
     login_activities : {<<>>, <<[timestamp |-> 0, created_at |-> 0]>>},
     dashboard_activities : {<<>>},
     oauth_activities : {<<>>},
     privacy_settings : {None, Some([default_privacy_settings(0) EXCEPT !.track_ip_address = FALSE])}]

NextMigration ==
    \/ \E p \in UserProfile : store_user_profile(p)
    \/ \E p \in UserProfile : update_user_profile(p)
    \/ \E p \in Session : store_session(p)
    \/ \E p \in LoginActivity(now) : store_login_activity(p)
    \/ create_default_privacy_settings
    \/ \E p \in PrivacySettings(now) : update_privacy_settings(p)
    \/ \E data \in Bundles : import_data(data)
    \/ \E data \in Bundles : \E et \in EntryTypes : import_data_store_error(data, et)
    \/ export_then_import

SpecMigration == Init /\ [][NextMigration]_vars

\* ------------------------------------- activity logs and their sweeps
\* An activity as a caller passes it: created_at and the timestamp are the
\* caller's, the time of the call or an earlier one.
BackdatedLoginActivity(t) == {[timestamp |-> c, created_at |-> c] : c \in 0..t}

BackdatedDashboardActivity(t) == {[visit_timestamp |-> c, created_at |-> c] : c \in 0..t}

BackdatedOAuthActivity(t) ==
    {[timestamp |-> c, app_id |-> 1, created_at |-> c] : c \in 0..t}

\* delete_old_login_activity step by step.  First the cutoff and the list
\* of links.
sweep_begin(older_than_days) ==
    /\ sweep.pc = "idle"
    /\ sweep' = [pc |-> "loop", cutoff |-> cutoff(older_than_days),
                 links |-> link_targets("LoginActivity"), next |-> 1,
                 deleted_count |-> 0]
    /\ UNCHANGED <<entries, links, now, ret, missing, sess, dht>>

\* Mutant: each iteration lists the links again.
sweep_step_relisting ==
    /\ sweep.pc = "loop"
    /\ sweep.next <= Len(link_targets("LoginActivity"))
    /\ LET hash == link_targets("LoginActivity")[sweep.next]
           old == /\ get("LoginActivity", hash)
                  /\ entries["LoginActivity"][hash].data.created_at < sweep.cutoff
       IN /\ entries' = IF old
                       THEN [entries EXCEPT !["LoginActivity"] =
                                delete_entry("LoginActivity", hash)]
                       ELSE entries
          /\ sweep' = [sweep EXCEPT !.next = @ + 1,
                                    !.deleted_count = IF old THEN @ + 1 ELSE @]
    /\ UNCHANGED <<links, now, ret, missing, sess, dht>>

\* One iteration of the loop: get the link's target, compare its created_at
\* with the cutoff, delete_entry.
sweep_step ==
    /\ sweep.pc = "loop"
    /\ sweep.next <= Len(sweep.links)
    /\ LET hash == sweep.links[sweep.next]
           old == /\ get("LoginActivity", hash)
                  /\ entries["LoginActivity"][hash].data.created_at < sweep.cutoff
       IN /\ entries' = IF old
                       THEN [entries EXCEPT !["LoginActivity"] =
                                delete_entry("LoginActivity", hash)]
                       ELSE entries
          /\ sweep' = [sweep EXCEPT !.next = @ + 1,
                                    !.deleted_count = IF old THEN @ + 1 ELSE @]
    /\ UNCHANGED <<links, now, ret, missing, sess, dht>>

\* After the loop: Ok(deleted_count).
sweep_end ==
    /\ sweep.pc = "loop"
    /\ sweep.next > Len(sweep.links)
    /\ ret' = Ok(sweep.deleted_count)
    /\ sweep' = [sweep EXCEPT !.pc = "done"]
    /\ UNCHANGED <<entries, links, now, missing, sess, dht>>

NextLog ==
    \/ \E p \in BackdatedLoginActivity(now) : store_login_activity(p)
    \/ \E p \in BackdatedDashboardActivity(now) : store_dashboard_activity(p)
    \/ \E p \in BackdatedOAuthActivity(now) : store_oauth_activity(p)
    \/ \E d \in Days : delete_old_login_activity(d)
    \/ \E d \in Days : delete_old_dashboard_activity(d)
    \/ \E d \in Days : delete_old_oauth_activity(d)
    \/ Tick

SpecLog == Init /\ [][NextLog]_vars

\* The sweeps over a store that holds records of the other kinds too.
NextRetention ==
    \/ \E p \in UserProfile : store_user_profile(p)
    \/ \E p \in Session : store_session(p)
    \/ create_default_privacy_settings
    \/ \E p \in LoginActivity(now) : store_login_activity(p)
    \/ \E p \in DashboardActivity(now) : store_dashboard_activity(p)
    \/ \E p \in OAuthActivity(now) : store_oauth_activity(p)
    \/ \E d \in Days : delete_old_login_activity(d)
    \/ \E d \in Days : delete_old_dashboard_activity(d)
    \/ \E d \in Days : delete_old_oauth_activity(d)
    \/ Tick

SpecRetention == Init /\ [][NextRetention]_vars

\* older_than_days is an i64 of its own: it ranges beyond the days the clock
\* word holds, so that the product leaves the word.
Ages == (-2 * WordDays)..(2 * WordDays)

\* The sweeps called with any age.
NextCutoff ==
    \/ \E p \in LoginActivity(now) : store_login_activity(p)
    \/ \E p \in DashboardActivity(now) : store_dashboard_activity(p)
    \/ \E p \in OAuthActivity(now) : store_oauth_activity(p)
    \/ \E d \in Ages : delete_old_login_activity(d)
    \/ \E d \in Ages : delete_old_dashboard_activity(d)
    \/ \E d \in Ages : delete_old_oauth_activity(d)
    \/ Tick

SpecCutoff == Init /\ [][NextCutoff]_vars

\* The list kinds over a store that may lose an action.
NextScan ==
    \/ \E p \in Session : store_session(p)
    \/ \E h \in 1..Len(entries["Session"]) : delete_session(h)
    \/ \E p \in LoginActivity(now) : store_login_activity(p)
    \/ \E p \in DashboardActivity(now) : store_dashboard_activity(p)
    \/ \E p \in OAuthActivity(now) : store_oauth_activity(p)
    \/ \E d \in Days : delete_old_login_activity(d)
    \/ \E d \in Days : delete_old_dashboard_activity(d)
    \/ \E d \in Days : delete_old_oauth_activity(d)
    \/ \E et \in EntryTypes : \E i \in 1..Len(entries[et]) : Lose(et, i)
    \/ Tick

SpecScan == Init /\ [][NextScan]_vars

\* OAuth activities of several apps, over a store that sweeps them and may
\* lose one.
AppActivity(t) == [timestamp : {t}, app_id : Apps, created_at : {t}]

NextByApp ==
    \/ \E p \in AppActivity(now) : store_oauth_activity(p)
    \/ \E d \in Days : delete_old_oauth_activity(d)
    \/ \E i \in 1..Len(entries["OAuthActivity"]) : Lose("OAuthActivity", i)
    \/ Tick

SpecByApp == Init /\ [][NextByApp]_vars

\* store_login_activity calls while delete_old_login_activity runs.
NextSweep ==
    \/ \E p \in BackdatedLoginActivity(now) : store_login_activity(p)
    \/ \E d \in Days : sweep_begin(d)
    \/ sweep_step
    \/ sweep_end
    \/ Tick

SpecSweep == Init /\ [][NextSweep]_vars

\* ------------------------------------------ the validation callback
\* An operation as validate sees it: its type, the action it carries, the
\* action's author, the action an Update / Delete / DeleteLink names (a
\* position in dht, 0 when the action names none), and the base of a
\* CreateLink (the agent key the link starts from, 0 for other actions).
Ops ==
    {op \in [type : {"StoreRecord", "StoreEntry", "RegisterUpdate", "RegisterDelete",
                     "RegisterCreateLink", "RegisterDeleteLink",
                     "RegisterAgentActivity"},
             action : {"Create", "Update", "Delete", "CreateLink", "DeleteLink"},
             author : Agents,
             original : 0..MaxOps,
             base : {0} \cup Agents] :
        /\ op.type = "StoreEntry" => op.action = "Create"
        /\ op.type = "RegisterUpdate" => op.action = "Update"
        /\ op.type = "RegisterDelete" => op.action = "Delete"
        /\ (op.type = "RegisterCreateLink") = (op.action = "CreateLink")
        /\ (op.type = "RegisterDeleteLink") = (op.action = "DeleteLink")
        /\ op.type = "RegisterAgentActivity" => op.action = "Create"
        /\ (op.original # 0) = (op.action \in {"Update", "Delete", "DeleteLink"})
        /\ (op.base # 0) = (op.action = "CreateLink")}

\* must_get_valid_record: the record of an accepted StoreRecord operation,
\* an error for anything else.
must_get_valid_record(h) == h \in 1..Len(dht) /\ dht[h].type = "StoreRecord"

\* Mutant: the author of a Delete is not compared.
validate_updates_only(op) ==
    LET same_author ==
            IF ~must_get_valid_record(op.original) THEN "Err"
            ELSE IF dht[op.original].author = op.author THEN "Valid" ELSE "Invalid"
    IN CASE op.type = "StoreRecord" ->
                (CASE op.action = "Create" -> "Valid"
                   [] op.action = "Update" -> same_author
                   [] OTHER -> "Valid")
         [] op.type = "StoreEntry" -> "Valid"
         [] op.type = "RegisterUpdate" -> same_author
         [] OTHER -> "Valid"

\* validate: Valid, Invalid, or the error of must_get_valid_record.
validate(op) ==
    LET same_author ==
            IF ~must_get_valid_record(op.original) THEN "Err"
            ELSE IF dht[op.original].author = op.author THEN "Valid" ELSE "Invalid"
    IN CASE op.type = "StoreRecord" ->
                (CASE op.action = "Create" -> "Valid"
                   [] op.action = "Update" -> same_author
                   [] op.action = "Delete" -> same_author
                   [] OTHER -> "Valid")
         [] op.type = "StoreEntry" -> "Valid"
         [] op.type = "RegisterUpdate" -> same_author
         [] op.type = "RegisterDelete" -> same_author
         [] op.type = "RegisterCreateLink" -> "Valid"
         [] op.type = "RegisterDeleteLink" -> "Valid"
         [] op.type = "RegisterAgentActivity" -> "Valid"

\* An agent offers an operation; the network keeps it when validate says Valid.
offer(op) ==
    /\ Len(dht) < MaxOps
    /\ dht' = IF validate(op) = "Valid" THEN Append(dht, op) ELSE dht
    /\ ret' = IF validate(op) = "Valid" THEN Ok(0)
              ELSE IF validate(op) = "Invalid"
                   THEN [op |-> "validate", status |-> "invalid", val |-> 0]
                   ELSE Err("must_get_valid_record")
    /\ UNCHANGED <<entries, links, now, missing, sess, sweep>>

NextValidate == \E op \in Ops : offer(op)

SpecValidate == Init /\ [][NextValidate]_vars

\* =================================================================== claims
SingletonKinds == {"UserProfile", "RecoveryPhrase", "PrivacySettings"}

\* The profile was stored once and then only updated: one link, a Create
\* followed by Updates.
StoredThenUpdated ==
    LET es == entries["UserProfile"]
    IN /\ Len(links["UserProfile"]) = 1
       /\ Len(es) >= 1
       /\ es[1].kind = "Create"
       /\ \A i \in 2..Len(es) : es[i].kind = "Update"

\* C1: after store_user_profile and N sequential update_user_profile calls,
\* get_user_profile returns the record of the Nth update (the stored one when
\* N = 0), and the update chain from the link's target holds every written
\* revision, in the order written: N update steps, no branch left aside.
C1_HeadIsLastWritten ==
    StoredThenUpdated =>
        /\ get_user_profile = SomeRecord(Len(entries["UserProfile"]))
        /\ update_chain("UserProfile", links["UserProfile"][1].target)
               = [i \in 1..Len(entries["UserProfile"]) |-> i]

C1_Witness ==
    /\ StoredThenUpdated
    /\ Len(entries["UserProfile"]) >= 3
    /\ entries["UserProfile"][2].data # entries["UserProfile"][3].data
    /\ get_user_profile = SomeRecord(3)

\* The recovery phrase was stored, marked verified, then rotated twice: two
\* Creates (the second one by mark_recovery_phrase_verified, which deleted
\* the first link) and two Updates.
VerifiedThenRotatedTwice ==
    LET es == entries["RecoveryPhrase"]
        ls == links["RecoveryPhrase"]
    IN /\ Len(es) = 4
       /\ es[1].kind = "Create" /\ es[2].kind = "Create"
       /\ es[3].kind = "Update" /\ es[4].kind = "Update"
       /\ Len(ls) = 2 /\ ~ls[1].live /\ ls[2].live

\* The created_at of recovery-phrase entry i is the greatest ever written.
GreatestCreatedAt(i) ==
    \A j \in 1..Len(entries["RecoveryPhrase"]) :
        entries["RecoveryPhrase"][i].data.created_at
            >= entries["RecoveryPhrase"][j].data.created_at

C3_GreatestAmongEdges ==
    Len(get_links("RecoveryPhrase")) > 1 =>
        /\ get_recovery_phrase.some
        /\ \A n \in 1..Len(link_targets("RecoveryPhrase")) :
               entries["RecoveryPhrase"][get_recovery_phrase.rec].data.created_at
                   >= entries["RecoveryPhrase"][link_targets("RecoveryPhrase")[n]].data.created_at

\* Both sessions finished their update_user_profile call.
BothDone == \A s \in Sessions : sess[s].pc = "done"

\* The entries the racing calls wrote.
RacingWrites == {sess[s].wrote : s \in Sessions}

\* Nothing was written after the later of the racing calls.
NoLaterWrite == Len(entries["UserProfile"]) \in RacingWrites

\* C4: two sessions run update_user_profile concurrently, each resolving the
\* head and then writing its successor.  Once both have completed,
\* get_user_profile returns one record (it is a function of the store), that
\* record is an entry a racing call wrote, and a following
\* update_user_profile writes its entry as the successor of that record and
\* makes it the head.
C4_RaceLeavesOneHead ==
    /\ [](BothDone /\ NoLaterWrite =>
            /\ get_user_profile.status = "ok" /\ get_user_profile.some
            /\ get_user_profile.rec \in RacingWrites)
    /\ [][BothDone /\ NoLaterWrite /\ (\E p \in UserProfile : update_user_profile(p)) =>
            /\ Last(entries'["UserProfile"]).orig = get_user_profile.rec
            /\ get_user_profile' = SomeRecord(Len(entries'["UserProfile"]))]_vars

\* Both sessions resolved the same head, wrote sibling successors of it, and
\* a later update_user_profile extended the record the read returned.
C4_Witness ==
    /\ BothDone
    /\ sess[1].head = sess[2].head
    /\ entries["UserProfile"][sess[1].wrote].orig = entries["UserProfile"][sess[2].wrote].orig
    /\ entries["UserProfile"][sess[1].wrote].data # entries["UserProfile"][sess[2].wrote].data
    /\ Len(entries["UserProfile"]) = 4
    /\ entries["UserProfile"][4].orig \in RacingWrites
    /\ get_user_profile = SomeRecord(4)

\* The read of a singleton kind.
singleton_read(et) ==
    CASE et = "UserProfile" -> get_user_profile
      [] et = "RecoveryPhrase" -> get_recovery_phrase
      [] et = "PrivacySettings" -> get_privacy_settings

\* The actions the read of kind et reaches: the first link's target and the
\* successors the loop walks to.
walked(et) == update_chain(et, links[et][get_links(et)[1]].target)

\* Some action the read of kind et reaches cannot be fetched.
BrokenWalk(et) ==
    /\ get_links(et) # <<>>
    /\ \E n \in 1..Len(walked(et)) : <<et, walked(et)[n]>> \in missing

\* C5: get_user_profile, get_recovery_phrase and get_privacy_settings return
\* an error, not None and not an earlier revision, whenever the first link's
\* target or a revision reached while following updates cannot be fetched.
C5_BrokenChainIsError ==
    \A et \in SingletonKinds : BrokenWalk(et) => singleton_read(et) = ReadErr

\* The profile's chain has three revisions, the middle one cannot be
\* fetched, and the read is an error.
C5_Witness ==
    /\ BrokenWalk("UserProfile")
    /\ Len(walked("UserProfile")) >= 3
    /\ <<"UserProfile", walked("UserProfile")[2]>> \in missing
    /\ get_user_profile = ReadErr

\* The owner has no link of the kind.
NoEdge(et) == get_links(et) = <<>>

\* C6: without a link of the kind, get_user_profile, get_recovery_phrase and
\* get_privacy_settings return None, and get_my_sessions,
\* get_email_permissions, get_login_activity, get_dashboard_activity and
\* get_oauth_activity return an empty list, whatever the limit and offset;
\* none of them returns an error.
C6_AbsenceIsNone ==
    /\ \A et \in SingletonKinds : NoEdge(et) => singleton_read(et) = NoRecord
    /\ NoEdge("Session") => get_my_sessions = <<>>
    /\ NoEdge("EmailPermission") => get_email_permissions = <<>>
    /\ \A limit \in Limits : \A offset \in Offsets :
        /\ NoEdge("LoginActivity") => get_login_activity(limit, offset) = <<>>
        /\ NoEdge("DashboardActivity") => get_dashboard_activity(limit, offset) = <<>>
        /\ NoEdge("OAuthActivity") => get_oauth_activity(limit, offset) = <<>>

\* The store is not empty (a profile with an update, a login activity), yet
\* the other kinds have no link and read as None or empty.
C6_Witness ==
    /\ Len(entries["UserProfile"]) = 2
    /\ Len(entries["LoginActivity"]) = 1
    /\ NoEdge("RecoveryPhrase") /\ get_recovery_phrase = NoRecord
    /\ NoEdge("PrivacySettings") /\ get_privacy_settings = NoRecord
    /\ NoEdge("Session") /\ get_my_sessions = <<>>
    /\ NoEdge("OAuthActivity") /\ get_oauth_activity(100, 0) = <<>>

\* A successful call of the update of singleton kind et.
UpdateOk(et) ==
    /\ CASE et = "UserProfile" -> \E p \in UserProfile : update_user_profile(p)
         [] et = "RecoveryPhrase" -> \E p \in RotatedPhrase(now) : update_recovery_phrase(p)
         [] et = "PrivacySettings" -> \E p \in PrivacySettings(now) : update_privacy_settings(p)
    /\ ret'.status = "ok"

\* C7: a successful update_user_profile, update_recovery_phrase or
\* update_privacy_settings creates no link and deletes none (the links of
\* every kind are unchanged), writes one new entry, and that entry names as
\* the action it updates the head the read returned at the start of the call.
C7_UpdateKeepsEdges ==
    [][\A et \in SingletonKinds :
        UpdateOk(et) =>
            /\ links' = links
            /\ \A k \in EntryTypes \ {et} : entries'[k] = entries[k]
            /\ Len(entries'[et]) = Len(entries[et]) + 1
            /\ SubSeq(entries'[et], 1, Len(entries[et])) = entries[et]
            /\ Last(entries'[et]).kind = "Update"
            /\ singleton_read(et).some
            /\ Last(entries'[et]).orig = singleton_read(et).rec]_vars

\* The last profile entry updates an entry that is itself an update: the
\* head was found by following updates, and the one link is still the first.
C7_Witness ==
    /\ Len(entries["UserProfile"]) >= 3
    /\ Last(entries["UserProfile"]).kind = "Update"
    /\ Last(entries["UserProfile"]).orig = Len(entries["UserProfile"]) - 1
    /\ entries["UserProfile"][Len(entries["UserProfile"]) - 1].kind = "Update"
    /\ Len(links["UserProfile"]) = 1
    /\ links["UserProfile"][1].target = 1
    /\ ret = Ok(0)

\* A call of the update (or of mark_recovery_phrase_verified) of kind et.
UpdateCall(et) ==
    CASE et = "UserProfile" -> \E p \in UserProfile : update_user_profile(p)
      [] et = "RecoveryPhrase" ->
            \/ \E p \in RotatedPhrase(now) : update_recovery_phrase(p)
            \/ mark_recovery_phrase_verified
      [] et = "PrivacySettings" -> \E p \in PrivacySettings(now) : update_privacy_settings(p)

\* C8: update_user_profile, update_recovery_phrase, update_privacy_settings
\* and mark_recovery_phrase_verified, called when the owner has no link of
\* the kind, return an error and leave every entry and every link unchanged.
C8_UpdateWithoutEdgeFails ==
    [][\A et \in SingletonKinds :
        NoEdge(et) /\ UpdateCall(et) =>
            /\ ret'.status = "err"
            /\ entries' = entries
            /\ links' = links]_vars

\* mark_recovery_phrase_verified failed for want of a link while the store
\* holds entries of other kinds.
C8_Witness ==
    /\ ret = Err("mark_recovery_phrase_verified")
    /\ NoEdge("RecoveryPhrase")
    /\ entries["RecoveryPhrase"] = <<>>
    /\ TotalEntries = MaxEntries

\* C9: after a successful mark_recovery_phrase_verified, whatever the number
\* of recovery-phrase links before, exactly one exists; it points to the
\* newly created entry, which updates no action, and get_recovery_phrase
\* returns that entry, with verified = TRUE.
C9_MarkLeavesOneEdge ==
    [][mark_recovery_phrase_verified /\ ret'.status = "ok" =>
        LET new == Len(entries["RecoveryPhrase"]) + 1
        IN /\ Len(entries'["RecoveryPhrase"]) = new
           /\ Len(get_links("RecoveryPhrase")') = 1
           /\ link_targets("RecoveryPhrase")' = <<new>>
           /\ entries'["RecoveryPhrase"][new].kind = "Create"
           /\ entries'["RecoveryPhrase"][new].orig = 0
           /\ get_recovery_phrase' = SomeRecord(new)
           /\ entries'["RecoveryPhrase"][new].data.verified]_vars

\* Two phrases were stored (two links), then mark_recovery_phrase_verified
\* deleted both links and linked its new entry.
C9_Witness ==
    LET ls == links["RecoveryPhrase"]
        es == entries["RecoveryPhrase"]
    IN /\ Len(ls) = 3 /\ ~ls[1].live /\ ~ls[2].live /\ ls[3].live
       /\ Len(es) = 3 /\ ls[3].target = 3
       /\ es[3].kind = "Create" /\ es[3].data.verified
       /\ get_recovery_phrase = SomeRecord(3)

\* The kinds whose entries are deleted: sessions and the activity logs.
DeletableKinds == {"Session", "LoginActivity", "DashboardActivity", "OAuthActivity"}

\* C10: after delete_session(h), or after delete_old_login_activity,
\* delete_old_dashboard_activity or delete_old_oauth_activity deleted an
\* entry, no link of the owner targets the deleted entry.
C10_NoEdgeToDeleted ==
    \A et \in DeletableKinds :
        \A n \in 1..Len(link_targets(et)) : ~entries[et][link_targets(et)[n]].deleted

\* The payloads the reads return, kind by kind.
read_payloads ==
    [user_profile |-> head_payload("UserProfile", get_user_profile),
     recovery_phrase |-> head_payload("RecoveryPhrase", get_recovery_phrase),
     sessions |-> payloads("Session", get_my_sessions),
     email_permissions |-> get_email_permissions,
     login_activities |-> get_login_activity(100, 0),
     dashboard_activities |-> get_dashboard_activity(100, 0),
     oauth_activities |-> get_oauth_activity(100, 0),
     privacy_settings |-> head_payload("PrivacySettings", get_privacy_settings)]

\* C11: import_data(export_all_data()) into an empty store gives, for every
\* kind, reads whose payloads equal the heads read before the export: a
\* singleton kind that had a head reads the same payload, a list kind reads
\* the same list.
C11_RoundTrip ==
    [][export_then_import =>
        /\ \A k \in {"user_profile", "recovery_phrase", "privacy_settings"} :
               read_payloads[k] # None => read_payloads'[k] = read_payloads[k]
        /\ \A k \in {"sessions", "email_permissions", "login_activities",
                     "dashboard_activities", "oauth_activities"} :
               read_payloads'[k] = read_payloads[k]]_vars

\* C12: the bundle of export_all_data holds the head of every kind the owner
\* has: Some(head payload) for each singleton kind with a link, and for each
\* list kind the payloads of all its readable records.
C12_ExportHoldsEveryHead ==
    /\ export_all_data.user_profile = read_payloads.user_profile
    /\ export_all_data.recovery_phrase = read_payloads.recovery_phrase
    /\ export_all_data.privacy_settings = read_payloads.privacy_settings
    /\ export_all_data.sessions = read_payloads.sessions
    /\ export_all_data.email_permissions = read_payloads.email_permissions
    /\ \A et \in {"LoginActivity", "DashboardActivity", "OAuthActivity"} :
           bundle_items(export_all_data, et, now) = payloads(et, readable(et, link_targets(et)))

\* C13: import_data of a bundle whose privacy_settings is None completes
\* successfully and leaves a record get_privacy_settings returns; when the
\* owner had no privacy settings before, it is the default record.
C13_ImportWithoutSettings ==
    [][\A data \in Bundles :
        data.privacy_settings = None /\ import_data(data) =>
            /\ ret'.status = "ok"
            /\ get_privacy_settings'.some
            /\ NoEdge("PrivacySettings") =>
                   read_payloads'.privacy_settings = Some(default_privacy_settings(now))]_vars

\* The kinds import_data imports after kind et that the bundle has items of.
later_kinds(data, et) ==
    {k \in EntryTypes : /\ import_position(k) > import_position(et)
                        /\ bundle_items(data, k, now) # <<>>}

\* C15: when the import of one kind fails, import_data still imports every
\* later kind of the bundle: each later kind gains one entry and one link
\* per item.
C15_LaterKindsImported ==
    [][\A data \in Bundles : \A et \in EntryTypes :
        import_data_store_error(data, et) =>
            \A k \in later_kinds(data, et) :
                /\ Len(entries'[k]) = Len(entries[k]) + Len(bundle_items(data, k, now))
                /\ Len(links'[k]) = Len(links[k]) + Len(bundle_items(data, k, now))]_vars

\* The store is what a first import_data(data) into an empty store left.
AfterImport(data) ==
    \E t \in 0..now :
        /\ entries = imported_entries(EmptyStore, data, Len(ImportOrder) + 1, t)
        /\ links = imported_links(EmptyStore, EmptyStore, data, Len(ImportOrder) + 1, t)

\* C16: a second import_data with the same bundle succeeds too; afterwards
\* every list kind holds two entries and two links per bundle item, and
\* every singleton read returns the bundle's payload for the kind.
C16_ImportTwice ==
    [][\A data \in Bundles :
        AfterImport(data) /\ import_data(data) =>
            /\ ret'.status = "ok"
            /\ \A et \in {"Session", "EmailPermission", "LoginActivity",
                          "DashboardActivity", "OAuthActivity"} :
                   /\ Len(get_links(et)') = 2 * Len(bundle_items(data, et, now))
                   /\ payloads(et, link_targets(et))' =
                          bundle_items(data, et, now) \o bundle_items(data, et, now)
            /\ data.user_profile # None =>
                   read_payloads'.user_profile = data.user_profile
            /\ data.recovery_phrase # None =>
                   read_payloads'.recovery_phrase = data.recovery_phrase
            /\ data.privacy_settings # None =>
                   read_payloads'.privacy_settings = data.privacy_settings]_vars

ActivityKinds == {"LoginActivity", "DashboardActivity", "OAuthActivity"}

\* The list read of an activity kind.
activity_read(et, limit, offset) ==
    CASE et = "LoginActivity" -> get_login_activity(limit, offset)
      [] et = "DashboardActivity" -> get_dashboard_activity(limit, offset)
      [] et = "OAuthActivity" -> get_oauth_activity(limit, offset)

\* max(0, min(L, K - O))
page_size(L, K, O) == IF K - O < 0 THEN 0 ELSE IF K - O < L THEN K - O ELSE L

\* C17: in every reachable state, get_login_activity, get_dashboard_activity
\* and get_oauth_activity with limit L and offset O over a kind with K links
\* return exactly max(0, min(L, K - O)) items.
C17_PageSize ==
    \A et \in ActivityKinds : \A limit \in Limits : \A offset \in Offsets :
        Len(activity_read(et, limit, offset))
            = page_size(limit, Len(get_links(et)), offset)

\* C18: the list an activity read returns is newest first by created_at: of
\* two returned items, the one listed earlier has the greater or equal
\* created_at.
C18_NewestFirst ==
    \A et \in ActivityKinds : \A limit \in Limits : \A offset \in Offsets :
        LET items == activity_read(et, limit, offset)
        IN \A m, n \in 1..Len(items) :
               m < n => items[m].created_at >= items[n].created_at

\* The sweep of an activity kind.
sweep_call(et, older_than_days) ==
    CASE et = "LoginActivity" -> delete_old_login_activity(older_than_days)
      [] et = "DashboardActivity" -> delete_old_dashboard_activity(older_than_days)
      [] et = "OAuthActivity" -> delete_old_oauth_activity(older_than_days)

\* The live entries of the kind older than d days: linked, not deleted, and
\* created_at strictly before now - d days.
expired(et, d) ==
    {i \in 1..Len(entries[et]) :
        /\ \E n \in 1..Len(links[et]) : links[et][n].live /\ links[et][n].target = i
        /\ ~entries[et][i].deleted
        /\ entries[et][i].data.created_at < now - d * MicrosPerDay}

\* C19: delete_old_login_activity, delete_old_dashboard_activity and
\* delete_old_oauth_activity with age d delete exactly the live entries of
\* the kind whose created_at is strictly before now - d days (an entry at the
\* cutoff is kept) and return their number; a second run with the same d
\* right after has nothing to delete and returns 0.
C19_SweepDeletesExpired ==
    [][\A et \in ActivityKinds : \A d \in Days :
        sweep_call(et, d) =>
            /\ \A i \in 1..Len(entries[et]) :
                   entries'[et][i].deleted
                       = (entries[et][i].deleted \/ i \in expired(et, d))
            /\ \A i \in 1..Len(entries[et]) :
                   entries[et][i].data.created_at = now - d * MicrosPerDay
                       => entries'[et][i].deleted = entries[et][i].deleted
            /\ ret' = Ok(Cardinality(expired(et, d)))
            /\ expired(et, d)' = {}
            /\ Cardinality(swept(et, d)') = 0]_vars

\* Three login activities one day apart; the sweep with d = 1 deleted the
\* oldest one only, kept the one at the cutoff, and returned 1.
C19_Witness ==
    LET es == entries["LoginActivity"]
    IN /\ Len(es) = 3 /\ now = 2 /\ ret = Ok(1) /\ sweep.pc = "idle"
       /\ \E i, j, k \in 1..3 :
            /\ es[i].data.created_at = 0 /\ es[i].deleted
            /\ es[j].data.created_at = 1 /\ ~es[j].deleted
            /\ es[k].data.created_at = 2 /\ ~es[k].deleted

\* C20: while delete_old_login_activity runs, an activity stored after the
\* sweep listed the links is not deleted by it: every entry an iteration
\* deletes is a target of the listed links that the iteration fetched (get
\* returned it) and found with created_at < cutoff.
C20_SweepDeletesOnlyScanned ==
    [][sweep_step =>
        \A i \in 1..Len(entries["LoginActivity"]) :
            entries'["LoginActivity"][i].deleted /\ ~entries["LoginActivity"][i].deleted =>
                /\ \E n \in 1..Len(sweep.links) : sweep.links[n] = i
                /\ i = sweep.links[sweep.next]
                /\ get("LoginActivity", i)
                /\ entries["LoginActivity"][i].data.created_at < sweep.cutoff]_vars

\* The sweep finished and deleted an entry it had listed, while an activity
\* stored during the sweep, older than the cutoff, is still there.
C20_Witness ==
    LET es == entries["LoginActivity"]
    IN /\ sweep.pc = "done"
       /\ sweep.deleted_count = 1
       /\ Len(sweep.links) = 1 /\ es[sweep.links[1]].deleted
       /\ Len(es) = 2
       /\ ~es[2].deleted /\ es[2].data.created_at < sweep.cutoff
       /\ Len(get_links("LoginActivity")) = 2

\* C21: a sweep of one activity kind leaves the entries and links of every
\* other entry type as they were: nothing of another kind is deleted,
\* written or relinked.
C21_SweepTouchesOneKind ==
    [][\A et \in ActivityKinds : \A d \in Days :
        sweep_call(et, d) =>
            \A k \in EntryTypes \ {et} :
                entries'[k] = entries[k] /\ links'[k] = links[k]]_vars

\* A login sweep deleted an expired login activity while a dashboard
\* activity of the same age and a profile are still there.
C21_Witness ==
    /\ Len(entries["LoginActivity"]) = 1 /\ entries["LoginActivity"][1].deleted
    /\ Len(entries["DashboardActivity"]) = 1
    /\ ~entries["DashboardActivity"][1].deleted
    /\ entries["DashboardActivity"][1].data.created_at
           = entries["LoginActivity"][1].data.created_at
    /\ Len(get_links("DashboardActivity")) = 1
    /\ get_user_profile = SomeRecord(1)
    /\ ret = Ok(1)

\* The operations of an Update or a Delete that validate compares authors on.
AuthorChecked(op) ==
    \/ op.type = "StoreRecord" /\ op.action \in {"Update", "Delete"}
    \/ op.type \in {"RegisterUpdate", "RegisterDelete"}

\* C22: validate accepts an Update or Delete operation (StoreRecord,
\* RegisterUpdate, RegisterDelete) exactly when its author is the author of
\* the record it updates or deletes; so every accepted Update or Delete was
\* authored by the author of the record it names, whatever was offered.
C22_OnlyAuthorSupersedes ==
    /\ \A op \in Ops :
           AuthorChecked(op) =>
               ((validate(op) = "Valid")
                   = (/\ op.original \in 1..Len(dht)
                      /\ dht[op.original].type = "StoreRecord"
                      /\ dht[op.original].author = op.author))
    /\ \A n \in 1..Len(dht) :
           AuthorChecked(dht[n]) =>
               /\ dht[n].original \in 1..(n - 1)
               /\ dht[dht[n].original].author = dht[n].author

\* Agent 1 created a record and deleted it, and the Delete another agent
\* offered on the same record was refused.
C22_Witness ==
    /\ Len(dht) = 2
    /\ dht[1] = [type |-> "StoreRecord", action |-> "Create", author |-> 1,
                 original |-> 0, base |-> 0]
    /\ dht[2] = [type |-> "RegisterDelete", action |-> "Delete", author |-> 1,
                 original |-> 1, base |-> 0]
    /\ ret.status = "invalid"

\* C23: with several AgentToProfile links, get_user_profile returns the head
\* of the chain behind the first-listed link, and every update_user_profile
\* extended that chain: each Update names the first link's target or an
\* earlier Update, the read returns the latest Update (the first link's
\* target when there is none), and the targets of the other links have no
\* updates and are never returned.
C23_FirstEdgeChain ==
    LET et == "UserProfile"
        es == entries[et]
        ls == get_links(et)
    IN Len(ls) >= 2 =>
        LET first == links[et][ls[1]].target
            ups == {i \in 1..Len(es) : es[i].kind = "Update"}
            chain == {first} \cup ups
        IN /\ get_user_profile =
                  SomeRecord(IF ups = {} THEN first
                             ELSE CHOOSE i \in ups : \A j \in ups : j <= i)
           /\ \A i \in ups : es[i].orig \in chain /\ es[i].orig < i
           /\ \A n \in 2..Len(ls) :
                  /\ links[et][ls[n]].target \notin chain
                  /\ get_user_profile.rec # links[et][ls[n]].target
                  /\ \A i \in ups : es[i].orig # links[et][ls[n]].target

\* The profile was stored twice and then updated twice: the read returns
\* the second update, on the chain of the first stored profile.
C23_Witness ==
    LET es == entries["UserProfile"]
    IN /\ Len(get_links("UserProfile")) = 2
       /\ Len(es) = 4
       /\ es[1].kind = "Create" /\ es[2].kind = "Create"
       /\ es[3].kind = "Update" /\ es[3].orig = 1
       /\ es[4].kind = "Update" /\ es[4].orig = 3
       /\ get_user_profile = SomeRecord(4)

\* C24: after any sequence of create_default_privacy_settings,
\* update_privacy_settings and import_data calls at most one
\* AgentToPrivacySettings link exists, and a create_default_privacy_settings
\* call made while a link exists returns an error and writes nothing.
C24_OneSettingsEdge ==
    [][/\ Len(get_links("PrivacySettings"))' <= 1
       /\ (create_default_privacy_settings /\ get_links("PrivacySettings") # <<>>) =>
              /\ ret' = Err("create_default_privacy_settings")
              /\ entries' = entries /\ links' = links]_vars

ListKinds == {"Session", "LoginActivity", "DashboardActivity", "OAuthActivity"}

\* The entries of a kind a scan can read: targets of live links that are
\* neither deleted nor lost.
Readable(et) ==
    {i \in 1..Len(entries[et]) :
        /\ \E n \in 1..Len(links[et]) : links[et][n].live /\ links[et][n].target = i
        /\ ~entries[et][i].deleted
        /\ <<et, i>> \notin missing}

\* What the scans return is computed over exactly the readable entries.
ScansSkipUnreadable ==
    /\ {get_my_sessions[n] : n \in 1..Len(get_my_sessions)} = Readable("Session")
    /\ Len(get_my_sessions) = Cardinality(Readable("Session"))
    /\ \A et \in ActivityKinds :
           /\ Len(activity_read(et, 100, 0)) = Cardinality(Readable(et))
           /\ \A i \in Readable(et) :
                  \E n \in 1..Len(activity_read(et, 100, 0)) :
                      activity_read(et, 100, 0)[n] = entries[et][i].data
    /\ get_activity_summary.total_logins = Cardinality(Readable("LoginActivity"))
    /\ get_activity_summary.unique_apps_used
           = Cardinality({entries["OAuthActivity"][i].data.app_id :
                             i \in Readable("OAuthActivity")})
    /\ get_activity_summary.dashboard_visits = Cardinality(Readable("DashboardActivity"))

\* C25: a list scan (get_my_sessions, get_login_activity,
\* get_dashboard_activity, get_oauth_activity, get_activity_summary,
\* delete_old_*_activity) skips an entry that is deleted or cannot be
\* fetched and returns the result over the readable entries: the reads and
\* the summary count exactly the readable entries, and a sweep deletes and
\* counts exactly the readable entries before the cutoff.
C25_ScansSkipUnreadable ==
    [][/\ ScansSkipUnreadable'
       /\ \A et \in ActivityKinds : \A d \in Days :
              sweep_call(et, d) =>
                  /\ ret' = Ok(Cardinality({i \in Readable(et) :
                                   entries[et][i].data.created_at < cutoff(d)}))
                  /\ \A i \in 1..Len(entries[et]) :
                         entries'[et][i].deleted
                             = (\/ entries[et][i].deleted
                                \/ /\ i \in Readable(et)
                                   /\ entries[et][i].data.created_at < cutoff(d))]_vars

\* The revisions from i back to the Create it descends from, through the
\* action each Update names.
RECURSIVE origin_path(_, _)
origin_path(et, i) ==
    IF entries[et][i].kind = "Update"
    THEN <<i>> \o origin_path(et, entries[et][i].orig)
    ELSE <<i>>

\* C26: the resolver moves to the last-listed successor at every step: the
\* profile get_user_profile returns descends from the first link's target
\* through revisions that are each the last-listed update of the action
\* they name, so with sibling updates U1 then U2 of one revision the read
\* returns the head of the branch through U2 and never a revision on the
\* branch through U1.
C26_LastListedSuccessor ==
    LET et == "UserProfile"
        es == entries[et]
    IN get_user_profile.some =>
        LET path == origin_path(et, get_user_profile.rec)
        IN /\ Last(path) = links[et][get_links(et)[1]].target
           /\ \A n \in 1..Len(path) :
                  es[path[n]].kind = "Update" =>
                      ~\E k \in (path[n] + 1)..Len(es) :
                            es[k].kind = "Update" /\ es[k].orig = es[path[n]].orig
           /\ \A i, j \in 1..Len(es) :
                  (/\ i < j
                   /\ es[i].kind = "Update" /\ es[j].kind = "Update"
                   /\ es[i].orig = es[j].orig) =>
                      \A n \in 1..Len(path) : path[n] # i

\* Revision 1 has the sibling updates 2 and 4, and 2 has its own update 3:
\* the read returns 4, not the head 3 of the branch through 2.
C26_Witness ==
    LET es == entries["UserProfile"]
    IN /\ Len(es) = 4
       /\ es[2].kind = "Update" /\ es[2].orig = 1
       /\ es[3].kind = "Update" /\ es[3].orig = 2
       /\ es[4].kind = "Update" /\ es[4].orig = 1
       /\ get_user_profile = SomeRecord(4)

\* C27: for an update chain of any length the loop of get_user_profile,
\* get_recovery_phrase and get_privacy_settings ends and returns a revision
\* without updates: with a link and every action fetchable, the read is
\* Some(record), the record has no update, and it descends from the first
\* link's target however many updates lie between them.
C27_WalkEndsAtHead ==
    \A et \in SingletonKinds :
        get_links(et) # <<>> =>
            /\ singleton_read(et).status = "ok" /\ singleton_read(et).some
            /\ singleton_read(et).rec \in 1..Len(entries[et])
            /\ updates(et, singleton_read(et).rec) = <<>>
            /\ Last(origin_path(et, singleton_read(et).rec))
                   = links[et][get_links(et)[1]].target
            /\ Len(origin_path(et, singleton_read(et).rec)) = Len(walked(et))

\* A privacy settings record updated three times: the read walked the
\* four revisions and returned the last one.
C27_Witness ==
    /\ get_privacy_settings = SomeRecord(4)
    /\ origin_path("PrivacySettings", 4) = <<4, 3, 2, 1>>
    /\ updates("PrivacySettings", 4) = <<>>

\* mark_recovery_phrase_verified found a phrase and wrote the verified one.
MarkOk ==
    /\ mark_recovery_phrase_verified
    /\ get_recovery_phrase.status = "ok" /\ get_recovery_phrase.some

\* C28: the entry mark_recovery_phrase_verified writes has a created_at
\* strictly greater than the created_at of the entry it supersedes, for
\* every stored created_at and every system time.
C28_MarkAdvancesCreatedAt ==
    [][MarkOk =>
        Last(entries'["RecoveryPhrase"]).data.created_at
            > entries["RecoveryPhrase"][get_recovery_phrase.rec].data.created_at]_vars

\* C29: mark_recovery_phrase_verified changes only verified and created_at:
\* the entry it writes carries the secret fields (encrypted_mnemonic, nonce,
\* salt, tag) of the head get_recovery_phrase returned right before, also
\* when that head was written by update_recovery_phrase; verified is true,
\* created_at is the system time, and no earlier entry changes.
C29_MarkKeepsSecret ==
    [][MarkOk =>
        LET et == "RecoveryPhrase"
            head == entries[et][get_recovery_phrase.rec].data
            new == Last(entries'[et]).data
        IN /\ Len(entries'[et]) = Len(entries[et]) + 1
           /\ new.secret = head.secret
           /\ new.verified = TRUE
           /\ new.created_at = now
           /\ \A i \in 1..Len(entries[et]) : entries'[et][i] = entries[et][i]]_vars

\* A phrase stored with secret 1 and rotated to secret 2, then marked: the
\* verified entry carries secret 2.
C29_Witness ==
    LET es == entries["RecoveryPhrase"]
    IN /\ Len(es) = 3
       /\ es[1].kind = "Create" /\ es[1].data.secret = 1
       /\ es[2].kind = "Update" /\ es[2].orig = 1 /\ es[2].data.secret = 2
       /\ es[3].kind = "Create" /\ es[3].data.verified /\ es[3].data.secret = 2
       /\ get_recovery_phrase = SomeRecord(3)

\* The call on service s returned Ok.
PermissionOk == ret'.status = "ok"

\* The latest version of the permission of service s, as get_email_permissions
\* returns it.
HasPermission(s) ==
    \E n \in 1..Len(get_email_permissions) : get_email_permissions[n].service_name = s

latest_permission(s) ==
    get_email_permissions[CHOOSE n \in 1..Len(get_email_permissions) :
                              get_email_permissions[n].service_name = s]

\* C31: after revoke_email_permission(s) succeeds, check_email_permission(s)
\* is false, and it stays false through every step that is not a
\* grant_email_permission for s, whatever revoke_email_permission and
\* record_permission_usage calls are made.
C31_RevokedUntilGranted ==
    [][\A s \in Services :
        /\ (revoke_email_permission(s) /\ PermissionOk) => ~check_email_permission(s)'
        /\ (~check_email_permission(s) /\ ~\E p \in Purposes : grant_email_permission(s, p))
               => ~check_email_permission(s)']_vars

\* C32: revoke_email_permission(s) and record_permission_usage(s) return an
\* error and write nothing when the latest permission of s is absent or has
\* granted = false.
C32_NotGrantedIsError ==
    [][\A s \in Services :
        ((revoke_email_permission(s) \/ record_permission_usage(s))
            /\ ~check_email_permission(s)) =>
                /\ ret'.status = "err"
                /\ entries' = entries /\ links' = links]_vars

\* C33: the version a successful grant_email_permission,
\* revoke_email_permission or record_permission_usage writes for a service
\* that has a permission equals the latest version before the call in every
\* field the operation does not set.
C33_DerivedFromHead ==
    [][\A s \in Services :
        HasPermission(s) =>
            LET old == latest_permission(s)
                new == Last(entries'["EmailPermission"]).data
            IN /\ ((\E p \in Purposes : grant_email_permission(s, p)) /\ PermissionOk) =>
                      /\ new.service_name = old.service_name
                      /\ new.purpose = old.purpose
                      /\ new.last_used_at = old.last_used_at
                      /\ new.created_at = old.created_at
               /\ (revoke_email_permission(s) /\ PermissionOk) =>
                      /\ new.service_name = old.service_name
                      /\ new.purpose = old.purpose
                      /\ new.granted_at = old.granted_at
                      /\ new.last_used_at = old.last_used_at
                      /\ new.created_at = old.created_at
               /\ (record_permission_usage(s) /\ PermissionOk) =>
                      /\ new.service_name = old.service_name
                      /\ new.purpose = old.purpose
                      /\ new.granted = old.granted
                      /\ new.granted_at = old.granted_at
                      /\ new.revoked_at = old.revoked_at
                      /\ new.created_at = old.created_at]_vars

\* C34: get_email_permissions returns one payload per permission link, the
\* one written by the most recent successful mutation of that permission:
\* the last-written entry of the link target's service, not the target and
\* not a version in between.
C34_LatestPermission ==
    LET et == "EmailPermission"
        es == entries[et]
        hs == link_targets(et)
    IN /\ Len(get_email_permissions) = Len(hs)
       /\ \A n \in 1..Len(hs) :
              LET mine == {i \in 1..Len(es) :
                              es[i].data.service_name = es[hs[n]].data.service_name}
              IN get_email_permissions[n]
                     = es[CHOOSE i \in mine : \A j \in mine : j <= i].data

\* A permission granted, revoked and granted again: the read returns the
\* third version.
C34_Witness ==
    LET es == entries["EmailPermission"]
    IN /\ Len(es) = 3 /\ Len(get_links("EmailPermission")) = 1
       /\ es[1].data.granted /\ ~es[2].data.granted /\ es[3].data.granted
       /\ es[3].data.updated_at = 2 /\ es[1].data.updated_at = 1
       /\ get_email_permissions = <<es[3].data>>

\* C35: at most one AgentToEmailPermissions link exists per service_name,
\* and a grant_email_permission for a service that has a link writes an
\* Update and no link.
C35_OneEdgePerService ==
    [][/\ \A m, n \in 1..Len(link_targets("EmailPermission")') :
              m # n =>
                  entries'["EmailPermission"][link_targets("EmailPermission")'[m]].data.service_name
                  # entries'["EmailPermission"][link_targets("EmailPermission")'[n]].data.service_name
       /\ \A s \in Services : \A p \in Purposes :
              (/\ grant_email_permission(s, p)
               /\ \E n \in 1..Len(link_targets("EmailPermission")) :
                      entries["EmailPermission"][link_targets("EmailPermission")[n]].data.service_name = s)
              => /\ links' = links
                 /\ Len(entries'["EmailPermission"]) = Len(entries["EmailPermission"]) + 1
                 /\ Last(entries'["EmailPermission"]).kind = "Update"]_vars

\* Two services granted, then the first granted again: two links, and the
\* third entry is an Update of the first.
C35_Witness ==
    LET es == entries["EmailPermission"]
    IN /\ Len(get_links("EmailPermission")) = 2 /\ Len(es) = 3
       /\ es[1].data.service_name = 1 /\ es[2].data.service_name = 2
       /\ es[3].kind = "Update" /\ es[3].orig = 1 /\ es[3].data.service_name = 1
       /\ es[3].data.granted /\ es[3].data.last_used_at = None

C37_SummaryAgreesWithLists ==
    /\ get_activity_summary.total_logins = Len(get_login_activity(100, 0))
    /\ get_activity_summary.dashboard_visits = Len(get_dashboard_activity(100, 0))

\* C38: only the owner adds or removes its links: every accepted CreateLink
\* was authored by the agent whose key is the link's base, and every
\* accepted DeleteLink names an accepted CreateLink of the same author.
C38_OnlyOwnerLinks ==
    \A n \in 1..Len(dht) :
        /\ dht[n].action = "CreateLink" => dht[n].author = dht[n].base
        /\ dht[n].action = "DeleteLink" =>
               /\ dht[n].original \in 1..(n - 1)
               /\ dht[dht[n].original].action = "CreateLink"
               /\ dht[dht[n].original].author = dht[n].author

\* C39: the cutoff is monotone in the age: whatever a sweep with the larger
\* age deletes, the sweep with the smaller age deletes too.
C39_CutoffMonotone ==
    \A et \in {"LoginActivity", "DashboardActivity", "OAuthActivity"} :
        \A d1, d2 \in Ages :
            d1 <= d2 => swept(et, d2) \subseteq swept(et, d1)

====
